---- MODULE Spec2Model ----
(***************************************************************************)
(* TruffleContractInstanceDecoder (packages/truffle-decoder/lib/contract.ts) *)
(* as a state machine: the mapping key registry (watchMappingKey,          *)
(* unwatchMappingKey, constructSlot), the storage word cache (getStorage)  *)
(* and the driver loop of decodeVariable under state() and variable().     *)
(***************************************************************************)
EXTENDS Integers, Sequences, FiniteSets, TLC

VARIABLES mappingKeys, storageCache, calls, storageReads, storageFailed, codeReads,
          last, undone, contract, heap, instances

\* What a contract decoder and the instance decoders made from it hold: the
\* artifact, the objects they refer to and the fields of each instance.
fleet == <<contract, heap, instances>>

(***************************************************************************)
(* Caller-supplied values.  A JavaScript argument is a number or a string. *)
(***************************************************************************)
Num(n) == [t |-> "number", n |-> n, s |-> ""]
Str(s) == [t |-> "string", n |-> 0, s |-> s]

\* Bound on the length of an index sequence passed to watch / unwatch.
MaxIndices == 2
\* Bound on the number of slots the registry may hold.
MaxKeys == 3

\* JavaScript ToNumber on the strings the model passes (used by ==).
StringToNumber(s) ==
  CASE s = "0" -> 0
    [] s = "1" -> 1
    [] s = "2" -> 2
    [] OTHER -> -1

\* String(n) for the numbers the model passes.
NumberToString(n) ==
  CASE n = 0 -> "0"
    [] n = 1 -> "1"
    [] n = 2 -> "2"
    [] OTHER -> "?"

\* bn.js 4.x: new BN(number) keeps the number; new BN(string) parses base 10
\* digit by digit, a letter counting as its base-36 digit ("m" is 22).
ParseBN(raw) ==
  IF raw.t = "number" THEN raw.n
  ELSE CASE raw.s = "0" -> 0
         [] raw.s = "1" -> 1
         [] raw.s = "m" -> 22
         [] OTHER -> 0

(***************************************************************************)
(* The contract under decoding: its type descriptors and allocations.      *)
(*   mapping(string => mapping(uint => uint)) a;        id 1, slot 0       *)
(*   mapping(uint => uint)[] arr;                       id 2, slot 1       *)
(*   struct S { uint x; mapping(uint => uint) m; } s;   id 3, slots 2..3   *)
(*   uint constant c = ...;                             id 4, no slot      *)
(*   uint8[] list;                                      id 5, slot 4       *)
(*   function () external f;                            id 6, slot 5       *)
(*   struct T { uint y; uint z; }  T[2] fixed;          id 7, slots 6..9   *)
(***************************************************************************)
TypeNames ==
  {"uint", "uint8", "function", "map_uint_uint", "map_str_map", "arr_map",
   "arr_uint8", "arr_T", "S", "T"}

Ty(class, key, base, dynamic, isWords, words) ==
  [class |-> class, key |-> key, base |-> base, dynamic |-> dynamic,
   isWords |-> isWords, words |-> words]

Types(name) ==
  CASE name = "uint"          -> Ty("uint", "", "", FALSE, FALSE, 0)
    [] name = "uint8"         -> Ty("uint", "", "", FALSE, FALSE, 0)
    [] name = "function"      -> Ty("function", "", "", FALSE, FALSE, 0)
    [] name = "map_uint_uint" -> Ty("mapping", "uint", "uint", FALSE, TRUE, 1)
    [] name = "map_str_map"   -> Ty("mapping", "string", "map_uint_uint", FALSE, TRUE, 1)
    [] name = "arr_map"       -> Ty("array", "", "map_uint_uint", TRUE, TRUE, 1)
    [] name = "arr_uint8"     -> Ty("array", "", "uint8", TRUE, TRUE, 1)
    [] name = "arr_T"         -> Ty("array", "", "T", FALSE, TRUE, 4)
    [] name = "S"             -> Ty("struct", "", "", FALSE, TRUE, 2)
    [] name = "T"             -> Ty("struct", "", "", FALSE, TRUE, 2)
    [] OTHER                  -> Ty("undefined", "", "", FALSE, FALSE, 0)

Alloc(id, name, type, location, offset) ==
  [id |-> id, name |-> name, type |-> type, location |-> location, offset |-> offset]

stateVariableReferences ==
  << Alloc(1, "a", "map_str_map", "storage", 0),
     Alloc(2, "arr", "arr_map", "storage", 1),
     Alloc(3, "s", "S", "storage", 2),
     Alloc(4, "c", "uint", "definition", 0),
     Alloc(5, "list", "arr_uint8", "storage", 4),
     Alloc(6, "f", "function", "storage", 5),
     Alloc(7, "fixed", "arr_T", "storage", 6) >>

\* allocations.storage[structId].members
StructMembers(name) ==
  CASE name = "S" -> << Alloc(8, "x", "uint", "storage", 0),
                        Alloc(9, "m", "map_uint_uint", "storage", 1) >>
    [] name = "T" -> << Alloc(10, "y", "uint", "storage", 0),
                        Alloc(11, "z", "uint", "storage", 1) >>
    [] OTHER -> << >>

(***************************************************************************)
(* Slots.  A Codec.Slot is a chain of links from the root variable to the  *)
(* leaf; the chain is kept root first, so slot.path is the chain without   *)
(* its last link and the root's path (undefined) is the empty chain.       *)
(***************************************************************************)
NoKey == [class |-> "none", n |-> 0, s |-> ""]
Link(offset, hashPath, key) == [offset |-> offset, hashPath |-> hashPath, key |-> key]
NoSlot == << >>
path(slot) == SubSeq(slot, 1, Len(slot) - 1)
Leaf(slot) == slot[Len(slot)]
HasKey(slot) == Leaf(slot).key.class # "none"

\* wrapElementaryViaDefinition: the raw index tagged with the declared key type.
wrapElementaryViaDefinition(raw, keyType) ==
  IF keyType = "uint"
    THEN [class |-> "uint", n |-> ParseBN(raw), s |-> ""]
    ELSE [class |-> keyType, n |-> 0,
          s |-> IF raw.t = "string" THEN raw.s ELSE NumberToString(raw.n)]

\* keyEncoding: what equalSlots compares of two keys; the type tag is not part of it.
keyEncoding(key) == [n |-> key.n, s |-> key.s]

\* (each argument is bound once by the quantifier, then compared link by link)
RECURSIVE equalSlots(_, _)
equalSlots(slot1, slot2) ==
  \E s1 \in {slot1}, s2 \in {slot2} :
    IF s1 = NoSlot \/ s2 = NoSlot THEN s1 = NoSlot /\ s2 = NoSlot
    ELSE /\ Leaf(s1).offset = Leaf(s2).offset
         /\ Leaf(s1).hashPath = Leaf(s2).hashPath
         /\ equalSlots(path(s1), path(s2))
         /\ IF ~HasKey(s1) \/ ~HasKey(s2)
              THEN ~HasKey(s1) /\ ~HasKey(s2)
              ELSE keyEncoding(Leaf(s1).key) = keyEncoding(Leaf(s2).key)

(***************************************************************************)
(* constructSlot                                                           *)
(***************************************************************************)
\* definition.name === variable || definition.id == variable
MatchesVariable(alloc, variable) ==
  \/ variable.t = "string" /\ variable.s = alloc.name
  \/ IF variable.t = "number" THEN variable.n = alloc.id
     ELSE StringToNumber(variable.s) = alloc.id

\* Array.prototype.find: the index of the first match, 0 when there is none.
Find(seq, P(_)) ==
  IF \E i \in 1..Len(seq) : P(seq[i])
    THEN CHOOSE i \in 1..Len(seq) : P(seq[i]) /\ \A j \in 1..(i-1) : ~P(seq[j])
    ELSE 0

Built(slot, definition) == [raised |-> FALSE, slot |-> slot, definition |-> definition]
Undefined == Built(NoSlot, "undefined")
TypeError == [raised |-> TRUE, slot |-> NoSlot, definition |-> "undefined"]

\* Mutant of constructSlot: the test for a constant is missing.
RECURSIVE constructSlotOfConstant(_, _)
constructSlotOfConstant(variable, indices) ==
  IF indices = << >>
    THEN LET i == Find(stateVariableReferences, LAMBDA al : MatchesVariable(al, variable))
         IN IF i = 0 THEN TypeError
            ELSE LET allocation == stateVariableReferences[i]
                 IN Built(<<Link(allocation.offset, "undefined", NoKey)>>, allocation.type)
    ELSE LET parent == constructSlotOfConstant(variable, SubSeq(indices, 1, Len(indices) - 1))
             rawIndex == indices[Len(indices)]
             parentDefinition == Types(parent.definition)
         IN IF parent.raised THEN TypeError
            ELSE IF parent.slot = NoSlot THEN Undefined
            ELSE CASE parentDefinition.class = "array" ->
                        LET size == Types(parentDefinition.base)
                        IN IF ~size.isWords THEN Undefined
                           ELSE Built(Append(parent.slot,
                                        Link(ParseBN(rawIndex) * size.words,
                                             IF parentDefinition.dynamic THEN "true" ELSE "false",
                                             NoKey)),
                                      parentDefinition.base)
                   [] parentDefinition.class = "mapping" ->
                        Built(Append(parent.slot,
                                Link(0, "undefined",
                                     wrapElementaryViaDefinition(rawIndex, parentDefinition.key))),
                              parentDefinition.base)
                   [] parentDefinition.class = "struct" ->
                        LET members == StructMembers(parent.definition)
                            i == IF rawIndex.t = "number"
                                   THEN IF rawIndex.n + 1 \in 1..Len(members) THEN rawIndex.n + 1 ELSE 0
                                   ELSE Find(members, LAMBDA al : al.name = rawIndex.s)
                        IN IF i = 0 THEN TypeError
                           ELSE Built(Append(parent.slot, Link(members[i].offset, "undefined", NoKey)),
                                      members[i].type)
                   [] OTHER -> Undefined

\* Mutant of constructSlot: the index is not multiplied by the element size.
RECURSIVE constructSlotUnscaled(_, _)
constructSlotUnscaled(variable, indices) ==
  IF indices = << >>
    THEN LET i == Find(stateVariableReferences, LAMBDA al : MatchesVariable(al, variable))
         IN IF i = 0 THEN TypeError
            ELSE LET allocation == stateVariableReferences[i]
                 IN IF allocation.location # "storage" THEN Undefined
                    ELSE Built(<<Link(allocation.offset, "undefined", NoKey)>>, allocation.type)
    ELSE LET parent == constructSlotUnscaled(variable, SubSeq(indices, 1, Len(indices) - 1))
             rawIndex == indices[Len(indices)]
             parentDefinition == Types(parent.definition)
         IN IF parent.raised THEN TypeError
            ELSE IF parent.slot = NoSlot THEN Undefined
            ELSE CASE parentDefinition.class = "array" ->
                        LET size == Types(parentDefinition.base)
                        IN IF ~size.isWords THEN Undefined
                           ELSE Built(Append(parent.slot,
                                        Link(ParseBN(rawIndex),
                                             IF parentDefinition.dynamic THEN "true" ELSE "false",
                                             NoKey)),
                                      parentDefinition.base)
                   [] parentDefinition.class = "mapping" ->
                        Built(Append(parent.slot,
                                Link(0, "undefined",
                                     wrapElementaryViaDefinition(rawIndex, parentDefinition.key))),
                              parentDefinition.base)
                   [] parentDefinition.class = "struct" ->
                        LET members == StructMembers(parent.definition)
                            i == IF rawIndex.t = "number"
                                   THEN IF rawIndex.n + 1 \in 1..Len(members) THEN rawIndex.n + 1 ELSE 0
                                   ELSE Find(members, LAMBDA al : al.name = rawIndex.s)
                        IN IF i = 0 THEN TypeError
                           ELSE Built(Append(parent.slot, Link(members[i].offset, "undefined", NoKey)),
                                      members[i].type)
                   [] OTHER -> Undefined

RECURSIVE constructSlot(_, _)
constructSlot(variable, indices) ==
  IF indices = << >>
    THEN LET i == Find(stateVariableReferences, LAMBDA al : MatchesVariable(al, variable))
         IN IF i = 0 THEN TypeError
            ELSE LET allocation == stateVariableReferences[i]
                 IN IF allocation.location # "storage" THEN Undefined
                    ELSE Built(<<Link(allocation.offset, "undefined", NoKey)>>, allocation.type)
    ELSE LET parent == constructSlot(variable, SubSeq(indices, 1, Len(indices) - 1))
             rawIndex == indices[Len(indices)]
             parentDefinition == Types(parent.definition)
         IN IF parent.raised THEN TypeError
            ELSE IF parent.slot = NoSlot THEN Undefined
            ELSE CASE parentDefinition.class = "array" ->
                        LET size == Types(parentDefinition.base)
                        IN IF ~size.isWords THEN Undefined
                           ELSE Built(Append(parent.slot,
                                        Link(ParseBN(rawIndex) * size.words,
                                             IF parentDefinition.dynamic THEN "true" ELSE "false",
                                             NoKey)),
                                      parentDefinition.base)
                   [] parentDefinition.class = "mapping" ->
                        Built(Append(parent.slot,
                                Link(0, "undefined",
                                     wrapElementaryViaDefinition(rawIndex, parentDefinition.key))),
                              parentDefinition.base)
                   [] parentDefinition.class = "struct" ->
                        LET members == StructMembers(parent.definition)
                            i == IF rawIndex.t = "number"
                                   THEN IF rawIndex.n + 1 \in 1..Len(members) THEN rawIndex.n + 1 ELSE 0
                                   ELSE Find(members, LAMBDA al : al.name = rawIndex.s)
                        IN IF i = 0 THEN TypeError
                           ELSE Built(Append(parent.slot, Link(members[i].offset, "undefined", NoKey)),
                                      members[i].type)
                   [] OTHER -> Undefined

(***************************************************************************)
(* The mapping key registry                                                *)
(***************************************************************************)
InRegistry(keys, slot) == \E i \in 1..Len(keys) : equalSlots(keys[i], slot)

\* Mutant of WatchLoop: an if in place of the while, so only the leaf is registered.
WatchLoopLeafOnly(slot, keys) ==
  IF slot # NoSlot /\ \A i \in 1..Len(keys) : ~equalSlots(keys[i], slot)
    THEN IF HasKey(slot) THEN Append(keys, slot) ELSE keys
    ELSE keys

\* Mutant of WatchLoop: the test of slot.key is dropped.
RECURSIVE WatchLoopAnySlot(_, _)
WatchLoopAnySlot(slot, keys) ==
  IF slot # NoSlot /\ \A i \in 1..Len(keys) : ~equalSlots(keys[i], slot)
    THEN WatchLoopAnySlot(path(slot), Append(keys, slot))
    ELSE keys

\* Mutant of WatchLoop: the newness test is dropped from the while condition.
RECURSIVE WatchLoopNoNewness(_, _)
WatchLoopNoNewness(slot, keys) ==
  IF slot # NoSlot
    THEN WatchLoopNoNewness(path(slot), IF HasKey(slot) THEN Append(keys, slot) ELSE keys)
    ELSE keys

\* The while loop of watchMappingKey: from the leaf toward the root.
RECURSIVE WatchLoop(_, _)
WatchLoop(slot, keys) ==
  IF slot # NoSlot /\ \A i \in 1..Len(keys) : ~equalSlots(keys[i], slot)
    THEN WatchLoop(path(slot), IF HasKey(slot) THEN Append(keys, slot) ELSE keys)
    ELSE keys

\* Mutant of KeepKey: the key itself is compared, its ancestors are not walked.
KeepKeyNoWalk(existingSlot, slot) == ~equalSlots(existingSlot, slot)

\* The filter callback of unwatchMappingKey: TRUE when the key is kept.
RECURSIVE KeepKey(_, _)
KeepKey(existingSlot, slot) ==
  IF existingSlot = NoSlot THEN TRUE
  ELSE IF equalSlots(existingSlot, slot) THEN FALSE
  ELSE KeepKey(path(existingSlot), slot)

\* What one call leaves in the registry.
Watched(built, keys) == IF built.raised THEN keys ELSE WatchLoop(built.slot, keys)
Unwatched(built, keys) ==
  IF built.raised \/ built.slot = NoSlot THEN keys
  ELSE SelectSeq(keys, LAMBDA existingSlot : KeepKey(existingSlot, built.slot))

(***************************************************************************)
(* The arguments callers pass                                              *)
(***************************************************************************)
Identifiers ==
  {Str("a"), Str("1"), Num(2), Str("s"), Str("c"), Str("list"), Str("fixed"), Str("nosuch")}
RawIndex == {Num(0), Str("0"), Str("m")}

RECURSIVE SeqsUpTo(_, _)
SeqsUpTo(S, n) ==
  IF n = 0 THEN {<< >>}
  ELSE LET shorter == SeqsUpTo(S, n - 1)
       IN shorter \cup {Append(q, x) : q \in {r \in shorter : Len(r) = n - 1}, x \in S}
IndexSeqs == SeqsUpTo(RawIndex, MaxIndices)

\* constructSlot on every argument list of the model, computed once.
\* (@@ makes TLC store the table instead of recomputing each entry on use)
Located == [args \in Identifiers \X IndexSeqs |-> constructSlot(args[1], args[2])] @@ << >>

(***************************************************************************)
(* The chain behind web3 and the wire decoder.  A historical block is      *)
(* immutable, so a read is a fixed function of its arguments; the block    *)
(* "latest" resolves to LatestBlock.                                       *)
(***************************************************************************)
contractAddress == "0xC"
LatestBlock == 2
Blocks == {Num(1), Str("latest")}

\* keccak256 of a key and a base slot, or (tag 0) of the base of a dynamic
\* array: distinct inputs give distinct slots, clear of the roots and offsets.
KeyTag(key) ==
  CASE key.class = "none" -> 0
    [] key.class = "uint" -> IF key.n = 0 THEN 1 ELSE 2
    [] OTHER -> IF key.s = "0" THEN 3 ELSE 4
keccak256(tag, base) == (base * 5 + tag + 1) * 100

\* Codec's slotAddress: the storage address (a BN) of a slot.
RECURSIVE slotAddress(_)
slotAddress(slot) ==
  CHOOSE address \in
    {IF Len(s) = 1 THEN s[1].offset
     ELSE IF HasKey(s) THEN keccak256(KeyTag(Leaf(s).key), slotAddress(path(s))) + Leaf(s).offset
     ELSE IF Leaf(s).hashPath = "true" THEN keccak256(0, slotAddress(path(s))) + Leaf(s).offset
     ELSE slotAddress(path(s)) + Leaf(s).offset
     : s \in {slot}} : TRUE

\* web3.eth.getStorageAt(address, slot, block): the word at the slot.
getStorageAt(address, slot, block) ==
  IF address # contractAddress THEN 0
  ELSE CASE slot = 1 -> block            \* arr.length: 1 at block 1, 2 at block 2
         [] slot = 4 -> block - 1        \* list.length: 0 at block 1, 1 at block 2
         [] slot = 5 -> block            \* f: a function of contract 0xA1 or 0xA2
         [] OTHER -> (slot + block) % 3

\* CodecUtils.Conversion.toBytes(data, length): left-padded to length bytes.
toBytes(data, length) == data

WORD_SIZE == 32

\* wireDecoder.getCode(address, block): the code at the address.
getCode(address, block) == IF address = "0xA1" THEN 10 + block ELSE 20 + block

\* The address a function pointer's word holds.
AddressIn(word) == IF word = 1 THEN "0xA1" ELSE "0xA2"

(***************************************************************************)
(* The decode engine (Codec.decodeVariable): a generator that yields       *)
(* requests and is resumed with the bytes read.  Plan gives the requests   *)
(* it has yielded and will yield next, given the responses so far.         *)
(***************************************************************************)
StorageRequest(slot) == [type |-> "storage", slot |-> slotAddress(slot), address |-> "", of |-> slot]
CodeRequest(address) == [type |-> "code", slot |-> 0, address |-> address, of |-> NoSlot]

\* The concatenation of a sequence of sequences (its argument is bound once).
RECURSIVE Flatten(_)
Flatten(seqs) ==
  CHOOSE flat \in {IF s = << >> THEN << >> ELSE Head(s) \o Flatten(Tail(s)) : s \in {seqs}} : TRUE

\* Requests for a value of the given type at a slot whose reads need no
\* earlier response: a mapping yields one subtree per registered key of it.
RECURSIVE StaticPlan(_, _, _)
StaticPlan(slot, type, keys) ==
  CHOOSE plan \in
    {CASE ty.class = "mapping" ->
            Flatten([i \in 1..Len(ks) |->
                       IF equalSlots(path(ks[i]), s) /\ Len(ks[i]) = Len(s) + 1
                         THEN StaticPlan(ks[i], ty.base, ks) ELSE << >>])
       [] ty.class = "struct" ->
            Flatten([i \in 1..Len(StructMembers(type)) |->
                       StaticPlan(Append(s, Link(StructMembers(type)[i].offset, "undefined", NoKey)),
                                  StructMembers(type)[i].type, ks)])
       [] ty.class = "array" /\ ~ty.dynamic ->
            Flatten([i \in 1..(ty.words \div Types(ty.base).words) |->
                       StaticPlan(Append(s, Link((i - 1) * Types(ty.base).words, "false", NoKey)),
                                  ty.base, ks)])
       [] OTHER -> <<StorageRequest(s)>>
     : s \in {slot}, ty \in {Types(type)}, ks \in {keys}} : TRUE

Plan(allocation, keys, responses) ==
  LET root == <<Link(allocation.offset, "undefined", NoKey)>>
      ty == Types(allocation.type)
  IN IF allocation.location # "storage" THEN << >>
     ELSE IF ty.class = "array" /\ ty.dynamic
       THEN <<StorageRequest(root)>> \o
            (IF responses = << >> THEN << >>
             ELSE IF Types(ty.base).isWords
               THEN Flatten([i \in 1..responses[1] |->
                               StaticPlan(Append(root, Link((i - 1) * Types(ty.base).words, "true", NoKey)),
                                          ty.base, keys)])
               ELSE IF responses[1] > 0
                 THEN <<StorageRequest(Append(root, Link(0, "true", NoKey)))>>
                 ELSE << >>)
     ELSE IF ty.class = "function"
       THEN <<StorageRequest(root)>> \o
            (IF responses = << >> THEN << >> ELSE <<CodeRequest(AddressIn(responses[1]))>>)
     ELSE StaticPlan(root, allocation.type, keys)

\* decoder.next(): done with the final value, or the next request.
DecoderDone(allocation, keys, responses) == Len(responses) = Len(Plan(allocation, keys, responses))
DecoderRequest(allocation, keys, responses) == Plan(allocation, keys, responses)[Len(responses) + 1]
\* The final value: each slot read, with the word decoded from it.
DecoderValue(allocation, keys, responses) ==
  [name |-> allocation.name,
   entries |-> [i \in 1..Len(responses) |->
                  [of |-> Plan(allocation, keys, responses)[i].of, word |-> responses[i]]]]

(***************************************************************************)
(* The storage word cache and the calls in flight.  A call is an async     *)
(* function: it runs until it awaits, and other calls run in between.      *)
(***************************************************************************)
\* Bound on the number of state / variable calls of one run.
MaxCalls == 2
\* Bound on the number of them that are state calls.
MaxStateCalls == 1

EmptyMap == [x \in {} |-> 0]
Put(f, k, v) == [x \in DOMAIN f \cup {k} |-> IF x = k THEN v ELSE f[x]]
Count(f, k) == IF k \in DOMAIN f THEN f[k] ELSE 0
Triple(block, address, slot) == [block |-> block, address |-> address, slot |-> slot]

IdleCall ==
  [kind |-> "none", pc |-> "idle", nameOrId |-> Str(""), block |-> 0, varIndex |-> 0,
   keys |-> << >>, responses |-> << >>, serviced |-> << >>, pending |-> 0,
   variables |-> << >>, value |-> "none", decodes |-> 0]

NoRead == [type |-> "none", block |-> 0, address |-> "", slot |-> 0]
Effect(call, cache, read) == [call |-> call, cache |-> cache, read |-> read]

\* storageCache[block][address][slot.toString()] is defined
Cached(cache, block, address, slot) ==
  /\ block \in DOMAIN cache
  /\ address \in DOMAIN cache[block]
  /\ ToString(slot) \in DOMAIN cache[block][address]

\* Mutant of getStorage: the cached word is not looked up.
getStorageNoLookup(call, cache, address, slot, block) ==
  LET layer1 == IF block \in DOMAIN cache THEN cache ELSE Put(cache, block, EmptyMap)
      layer2 == IF address \in DOMAIN layer1[block] THEN layer1
                ELSE Put(layer1, block, Put(layer1[block], address, EmptyMap))
      served == Append(call.serviced, [type |-> "storage", address |-> address,
                                       slot |-> slot, block |-> block])
  IN Effect([call EXCEPT !.pc = "getStorageAt", !.serviced = served],
            layer2, [type |-> "storage", block |-> block, address |-> address, slot |-> slot])

\* getStorage up to its return or its await: the two layers are set up, a
\* cached word is returned, otherwise the chain read is issued.
getStorage(call, cache, address, slot, block) ==
  LET layer1 == IF block \in DOMAIN cache THEN cache ELSE Put(cache, block, EmptyMap)
      layer2 == IF address \in DOMAIN layer1[block] THEN layer1
                ELSE Put(layer1, block, Put(layer1[block], address, EmptyMap))
      served == Append(call.serviced, [type |-> "storage", address |-> address,
                                       slot |-> slot, block |-> block])
  IN IF Cached(layer2, block, address, slot)
       THEN Effect([call EXCEPT !.pc = "resume", !.serviced = served,
                                !.pending = layer2[block][address][ToString(slot)]],
                   layer2, NoRead)
       ELSE Effect([call EXCEPT !.pc = "getStorageAt", !.serviced = served],
                   layer2, [type |-> "storage", block |-> block, address |-> address, slot |-> slot])

\* Mutant of Drive: code is fetched at the instance's own address.
DriveOwnAddress(call, cache) ==
  LET allocation == stateVariableReferences[call.varIndex]
  IN IF DecoderDone(allocation, call.keys, call.responses)
       THEN Effect([call EXCEPT !.pc = IF call.kind = "state" THEN "decoded" ELSE "returned",
                                !.value = IF call.kind = "state" THEN call.value ELSE "value"],
                   cache, NoRead)
       ELSE LET request == DecoderRequest(allocation, call.keys, call.responses)
            IN IF request.type = "storage"
                 THEN getStorage(call, cache, contractAddress, request.slot, call.block)
                 ELSE Effect([call EXCEPT !.pc = "getCode",
                                !.serviced = Append(call.serviced,
                                   [type |-> "code", address |-> contractAddress,
                                    slot |-> 0, block |-> call.block])],
                             cache,
                             [type |-> "code", block |-> call.block,
                              address |-> contractAddress, slot |-> 0])

\* Mutant of Drive: the engine reads this.mappingKeys as it is at each resume.
DriveLiveKeys(call, cache) ==
  LET allocation == stateVariableReferences[call.varIndex]
  IN IF DecoderDone(allocation, mappingKeys, call.responses)
       THEN Effect([call EXCEPT !.pc = IF call.kind = "state" THEN "decoded" ELSE "returned",
                                !.value = IF call.kind = "state" THEN call.value ELSE "value"],
                   cache, NoRead)
       ELSE LET request == DecoderRequest(allocation, mappingKeys, call.responses)
            IN IF request.type = "storage"
                 THEN getStorage(call, cache, contractAddress, request.slot, call.block)
                 ELSE Effect([call EXCEPT !.pc = "getCode",
                                !.serviced = Append(call.serviced,
                                   [type |-> "code", address |-> request.address,
                                    slot |-> 0, block |-> call.block])],
                             cache,
                             [type |-> "code", block |-> call.block,
                              address |-> request.address, slot |-> 0])

\* The loop of decodeVariable from a decoder.next() to the next await.
\* (request is bound by a set constructor, so that it is evaluated once)
Drive(call, cache) ==
  LET allocation == stateVariableReferences[call.varIndex]
  IN IF DecoderDone(allocation, call.keys, call.responses)
       THEN Effect([call EXCEPT !.pc = IF call.kind = "state" THEN "decoded" ELSE "returned",
                                !.value = IF call.kind = "state" THEN call.value ELSE "value"],
                   cache, NoRead)
       ELSE CHOOSE effect \in
              {IF request.type = "storage"
                 THEN getStorage(call, cache, contractAddress, request.slot, call.block)
                 ELSE Effect([call EXCEPT !.pc = "getCode",
                                !.serviced = Append(call.serviced,
                                   [type |-> "code", address |-> request.address,
                                    slot |-> 0, block |-> call.block])],
                             cache,
                             [type |-> "code", block |-> call.block,
                              address |-> request.address, slot |-> 0])
               : request \in {DecoderRequest(allocation, call.keys, call.responses)}} : TRUE

\* Mutant of decodeVariable: info is built without the registry.
decodeVariableNoKeys(call, cache, keys) ==
  Drive([call EXCEPT !.keys = << >>, !.responses = << >>, !.serviced = << >>,
                     !.decodes = call.decodes + 1], cache)

\* decodeVariable from its entry: info takes this.mappingKeys as it is now.
decodeVariable(call, cache, keys) ==
  Drive([call EXCEPT !.keys = keys, !.responses = << >>, !.serviced = << >>,
                     !.decodes = call.decodes + 1], cache)

\* Mutant of variable(): the test for a bad name is missing, and the first
\* variable is decoded in its place.
variableNoCheck(call, cache, keys) ==
  LET i == Find(stateVariableReferences, LAMBDA al : MatchesVariable(al, call.nameOrId))
  IN decodeVariable([call EXCEPT !.varIndex = IF i = 0 THEN 1 ELSE i], cache, keys)

\* variable() once blockNumber is known.
variable_(call, cache, keys) ==
  LET i == Find(stateVariableReferences, LAMBDA al : MatchesVariable(al, call.nameOrId))
  IN IF i = 0 THEN Effect([call EXCEPT !.pc = "returned", !.value = "undefined"], cache, NoRead)
     ELSE decodeVariable([call EXCEPT !.varIndex = i], cache, keys)

\* state() once blockNumber is known: the first of its awaits.
state_(call, cache) == Effect([call EXCEPT !.pc = "getBalance"], cache, NoRead)

Apply(c, effect) ==
  \E e \in {effect} :
    /\ calls' = [calls EXCEPT ![c] = e.call]
    /\ storageCache' = e.cache
    /\ storageReads' = IF e.read.type = "storage"
                         THEN LET t == Triple(e.read.block, e.read.address, e.read.slot)
                              IN Put(storageReads, t, Count(storageReads, t) + 1)
                         ELSE storageReads
    /\ codeReads' = IF e.read.type = "code" THEN codeReads + 1 ELSE codeReads

\* The call slot a new call takes: calls are numbered in the order they start.
Fresh(c) == calls[c].pc = "idle" /\ \A d \in 1..(c - 1) : calls[d].pc # "idle"

CallVariable(c, nameOrId, block) ==
  /\ Fresh(c)
  /\ LET call == [IdleCall EXCEPT !.kind = "variable", !.nameOrId = nameOrId,
                                  !.block = IF block.t = "number" THEN block.n ELSE 0]
     IN IF block.t = "number" THEN Apply(c, variable_(call, storageCache, mappingKeys))
        ELSE Apply(c, Effect([call EXCEPT !.pc = "getBlock"], storageCache, NoRead))
  /\ UNCHANGED <<mappingKeys, last, undone, storageFailed, fleet>>

CallState(c, block) ==
  /\ Fresh(c)
  /\ Cardinality({d \in 1..MaxCalls : calls[d].kind = "state"}) < MaxStateCalls
  /\ LET call == [IdleCall EXCEPT !.kind = "state",
                                  !.block = IF block.t = "number" THEN block.n ELSE 0]
     IN IF block.t = "number" THEN Apply(c, state_(call, storageCache))
        ELSE Apply(c, Effect([call EXCEPT !.pc = "getBlock"], storageCache, NoRead))
  /\ UNCHANGED <<mappingKeys, last, undone, storageFailed, fleet>>

\* web3.eth.getBlock(block) returns.
BlockReturns(c) ==
  /\ calls[c].pc = "getBlock"
  /\ LET call == [calls[c] EXCEPT !.block = LatestBlock]
     IN IF call.kind = "state" THEN Apply(c, state_(call, storageCache))
        ELSE Apply(c, variable_(call, storageCache, mappingKeys))
  /\ UNCHANGED <<mappingKeys, last, undone, storageFailed, fleet>>

\* web3.eth.getBalance returns.
BalanceReturns(c) ==
  /\ calls[c].pc = "getBalance"
  /\ Apply(c, Effect([calls[c] EXCEPT !.pc = "getTransactionCount"], storageCache, NoRead))
  /\ UNCHANGED <<mappingKeys, last, undone, storageFailed, fleet>>

\* web3.eth.getTransactionCount returns: the loop over the variables begins.
TransactionCountReturns(c) ==
  /\ calls[c].pc = "getTransactionCount"
  /\ Apply(c, decodeVariable([calls[c] EXCEPT !.varIndex = 1], storageCache, mappingKeys))
  /\ UNCHANGED <<mappingKeys, last, undone, storageFailed, fleet>>

\* state(): a decodeVariable has returned; its value is stored and the next begins.
Decoded(c) ==
  /\ calls[c].pc = "decoded"
  /\ LET call == calls[c]
         allocation == stateVariableReferences[call.varIndex]
         stored == [call EXCEPT !.variables =
                      Append(call.variables, DecoderValue(allocation, call.keys, call.responses))]
     IN IF call.varIndex < Len(stateVariableReferences)
          THEN Apply(c, decodeVariable([stored EXCEPT !.varIndex = call.varIndex + 1],
                                       storageCache, mappingKeys))
          ELSE Apply(c, Effect([stored EXCEPT !.pc = "returned", !.value = "state"],
                               storageCache, NoRead))
  /\ UNCHANGED <<mappingKeys, last, undone, storageFailed, fleet>>

\* Mutant of StorageReturns: the word is cached, and the awaiting call is not resumed.
StorageReturnsNoResume(c) ==
  /\ calls[c].pc = "getStorageAt"
  /\ LET call == calls[c]
         asked == call.serviced[Len(call.serviced)]
         word == toBytes(getStorageAt(asked.address, asked.slot, asked.block), WORD_SIZE)
         cache == Put(storageCache, asked.block,
                      Put(storageCache[asked.block], asked.address,
                          Put(storageCache[asked.block][asked.address], ToString(asked.slot), word)))
     IN Apply(c, Effect(call, cache, NoRead))
  /\ UNCHANGED <<mappingKeys, last, undone, storageFailed, fleet>>

\* web3.eth.getStorageAt returns: the word is cached and returned, and the
\* await in decodeVariable resumes with it (decoder.next(response)).
StorageReturns(c) ==
  /\ calls[c].pc = "getStorageAt"
  /\ LET call == calls[c]
         asked == call.serviced[Len(call.serviced)]
         word == toBytes(getStorageAt(asked.address, asked.slot, asked.block), WORD_SIZE)
         cache == Put(storageCache, asked.block,
                      Put(storageCache[asked.block], asked.address,
                          Put(storageCache[asked.block][asked.address], ToString(asked.slot), word)))
     IN Apply(c, Drive([call EXCEPT !.responses = Append(call.responses, word)], cache))
  /\ UNCHANGED <<mappingKeys, last, undone, storageFailed, fleet>>

\* wireDecoder.getCode returns, and the await in decodeVariable resumes.
CodeReturns(c) ==
  /\ calls[c].pc = "getCode"
  /\ LET call == calls[c]
         asked == call.serviced[Len(call.serviced)]
     IN Apply(c, Drive([call EXCEPT !.responses =
                          Append(call.responses, getCode(asked.address, asked.block))],
                       storageCache))
  /\ UNCHANGED <<mappingKeys, last, undone, storageFailed, fleet>>

\* The await on a word returned from the cache resumes: decoder.next(response).
Resume(c) ==
  /\ calls[c].pc = "resume"
  /\ Apply(c, Drive([calls[c] EXCEPT !.responses = Append(calls[c].responses, calls[c].pending)],
                    storageCache))
  /\ UNCHANGED <<mappingKeys, last, undone, storageFailed, fleet>>

\* Mutant of ReadFails: the failed read leaves an empty word in the cache.
ReadFailsCachesWord(c) ==
  /\ calls[c].pc \in {"getBlock", "getBalance", "getTransactionCount", "getStorageAt", "getCode"}
  /\ calls' = [calls EXCEPT ![c].pc = "failed"]
  /\ storageFailed' =
       IF calls[c].pc = "getStorageAt"
         THEN LET asked == calls[c].serviced[Len(calls[c].serviced)]
                  t == Triple(asked.block, asked.address, asked.slot)
              IN Put(storageFailed, t, Count(storageFailed, t) + 1)
         ELSE storageFailed
  /\ storageCache' =
       IF calls[c].pc = "getStorageAt"
         THEN LET asked == calls[c].serviced[Len(calls[c].serviced)]
              IN Put(storageCache, asked.block,
                     Put(storageCache[asked.block], asked.address,
                         Put(storageCache[asked.block][asked.address], ToString(asked.slot), 0)))
         ELSE storageCache
  /\ UNCHANGED <<mappingKeys, last, undone, storageReads, codeReads, fleet>>

\* Mutant of ReadFails: the error is caught and what was decoded so far is returned.
ReadFailsReturnsPartial(c) ==
  /\ calls[c].pc \in {"getBlock", "getBalance", "getTransactionCount", "getStorageAt", "getCode"}
  /\ calls' = [calls EXCEPT ![c].pc = "returned",
                            ![c].value = IF calls[c].kind = "state" THEN "state" ELSE "value"]
  /\ storageFailed' =
       IF calls[c].pc = "getStorageAt"
         THEN LET asked == calls[c].serviced[Len(calls[c].serviced)]
                  t == Triple(asked.block, asked.address, asked.slot)
              IN Put(storageFailed, t, Count(storageFailed, t) + 1)
         ELSE storageFailed
  /\ UNCHANGED <<mappingKeys, last, undone, storageCache, storageReads, codeReads, fleet>>

\* A chain read fails: the error propagates and ends the call.
ReadFails(c) ==
  /\ calls[c].pc \in {"getBlock", "getBalance", "getTransactionCount", "getStorageAt", "getCode"}
  /\ calls' = [calls EXCEPT ![c].pc = "failed"]
  /\ storageFailed' =
       IF calls[c].pc = "getStorageAt"
         THEN LET asked == calls[c].serviced[Len(calls[c].serviced)]
                  t == Triple(asked.block, asked.address, asked.slot)
              IN Put(storageFailed, t, Count(storageFailed, t) + 1)
         ELSE storageFailed
  /\ UNCHANGED <<mappingKeys, last, undone, storageCache, storageReads, codeReads, fleet>>

(***************************************************************************)
(* A contract decoder and the instance decoders forInstance makes from it. *)
(* An object that is changed in place (a storage cache, a table of         *)
(* contexts) is an entry of heap and a field holds its reference; an array *)
(* or table that is only ever replaced by a new one is held by value.      *)
(***************************************************************************)
\* Bound on the number of instance decoders made from the contract decoder.
MaxInstances == 2

\* contract.deployedBytecode of the artifact: absent, empty or present.
DeployedBytecodes == {"undefined", "0x", "0x6080"}

\* The ids of the contract being decoded and of another contract of the project.
ContractId == 7
OtherId == 8

\* wireDecoder.getContexts().byId: the deployed contexts of the project's
\* artifacts that have deployed bytecode.
ContextsById(deployedBytecode) ==
  IF deployedBytecode \in {"undefined", "0x"}
    THEN Put(EmptyMap, OtherId, [contractId |-> OtherId, binary |-> "0x6090"])
    ELSE Put(Put(EmptyMap, OtherId, [contractId |-> OtherId, binary |-> "0x6090"]),
             ContractId, [contractId |-> ContractId, binary |-> deployedBytecode])
\* References: of the table wireDecoder.getContexts().byId, and of the
\* objects an instance makes (each new object has a reference of its own).
SharedContexts == <<"contextsById", 0>>
NewCache(i) == <<"storageCache", i>>
NewTable(i) == <<"contextsById", i>>

\* Utils.makeContext(contract, contractNode): a new context of the contract.
makeContext(artifact) == [contractId |-> ContractId, binary |-> artifact.deployedBytecode]

\* {...table, ...additional}
Spread(table, additional) ==
  [id \in DOMAIN table \cup DOMAIN additional |->
     IF id \in DOMAIN additional THEN additional[id] ELSE table[id]]

NoInstance ==
  [pc |-> "none", contractCode |-> 0, mappingKeys |-> << >>, storageCache |-> <<"none", 0>>,
   contextsById |-> <<"none", 0>>, additionalContexts |-> EmptyMap, call |-> IdleCall, reads |-> EmptyMap]

(***************************************************************************)
(* A caller of the registry.  After any number of calls whose outcome it   *)
(* ignores, it makes one call whose arguments, outcome and registry before *)
(* are kept in `last`; after a watch it may go on to unwatch with the same *)
(* arguments, and `undone` then holds the registry before that watch.      *)
(***************************************************************************)
NoCall == [op |-> "none", variable |-> Str(""), indices |-> << >>, raised |-> FALSE,
           slot |-> NoSlot, before |-> << >>]
Called(op, variable, indices, before) ==
  [op |-> op, variable |-> variable, indices |-> indices,
   raised |-> Located[<<variable, indices>>].raised,
   slot |-> Located[<<variable, indices>>].slot, before |-> before]

watchMappingKey(variable, indices) ==
  /\ Len(Watched(Located[<<variable, indices>>], mappingKeys)) <= MaxKeys
  /\ mappingKeys' = Watched(Located[<<variable, indices>>], mappingKeys)

unwatchMappingKey(variable, indices) ==
  mappingKeys' = Unwatched(Located[<<variable, indices>>], mappingKeys)

decoding == <<storageCache, calls, storageReads, storageFailed, codeReads>>
vars == <<mappingKeys, storageCache, calls, storageReads, storageFailed, codeReads, last, undone,
          contract, heap, instances>>

Init ==
  /\ mappingKeys = << >>
  /\ last = NoCall
  /\ undone = <<FALSE, << >> >>
  /\ storageCache = EmptyMap
  /\ calls = [c \in 1..MaxCalls |-> IdleCall]
  /\ storageReads = EmptyMap
  /\ storageFailed = EmptyMap
  /\ codeReads = 0
  /\ contract = [deployedBytecode |-> "0x6080"]
  /\ heap = Put(EmptyMap, SharedContexts, ContextsById("0x6080"))
  /\ instances = [i \in 1..MaxInstances |-> NoInstance]

Watch ==
  \E variable \in Identifiers, indices \in IndexSeqs :
    /\ last = NoCall
    /\ watchMappingKey(variable, indices)
    /\ last' \in {NoCall, Called("watch", variable, indices, mappingKeys)}
    /\ UNCHANGED <<undone, decoding, fleet>>

Unwatch ==
  \E variable \in Identifiers, indices \in IndexSeqs :
    /\ last = NoCall
    /\ unwatchMappingKey(variable, indices)
    /\ last' \in {NoCall, Called("unwatch", variable, indices, mappingKeys)}
    /\ UNCHANGED <<undone, decoding, fleet>>

WatchThenUnwatch ==
  /\ last.op = "watch"
  /\ unwatchMappingKey(last.variable, last.indices)
  /\ last' = Called("unwatch", last.variable, last.indices, mappingKeys)
  /\ undone' = <<TRUE, last.before>>
  /\ UNCHANGED <<decoding, fleet>>

NextRegistry == Watch \/ Unwatch \/ WatchThenUnwatch
SpecRegistry == Init /\ [][NextRegistry]_vars

(***************************************************************************)
(* One instance decoder in use: the caller watches and unwatches keys,     *)
(* then makes state and variable calls, one started while another awaits.  *)
(***************************************************************************)
VariableArgs == {Str("2"), Num(6), Str("nosuch")}
WatchArgs == {<<Str("a"), <<Str("m"), Num(0)>> >>, <<Num(2), <<Num(0), Num(0)>> >>}

WatchKey ==
  \E args \in WatchArgs :
    /\ \A c \in 1..MaxCalls : calls[c].pc = "idle"
    /\ watchMappingKey(args[1], args[2])
    /\ mappingKeys' # mappingKeys
    /\ UNCHANGED <<last, undone, decoding, fleet>>

UnwatchKey ==
  \E args \in WatchArgs :
    /\ \A c \in 1..MaxCalls : calls[c].pc = "idle"
    /\ unwatchMappingKey(args[1], args[2])
    /\ mappingKeys' # mappingKeys
    /\ UNCHANGED <<last, undone, decoding, fleet>>

Next ==
  \/ \E c \in 1..MaxCalls, nameOrId \in VariableArgs, block \in Blocks : CallVariable(c, nameOrId, block)
  \/ \E c \in 1..MaxCalls, block \in Blocks : CallState(c, block)
  \/ \E c \in 1..MaxCalls :
        \/ BlockReturns(c) \/ BalanceReturns(c) \/ TransactionCountReturns(c)
        \/ Decoded(c) \/ StorageReturns(c) \/ CodeReturns(c) \/ Resume(c) \/ ReadFails(c)
  \/ WatchKey
  \/ UnwatchKey
Spec == Init /\ [][Next]_vars

(***************************************************************************)
(* A single call, with the caller watching and unwatching keys while the   *)
(* call is suspended at an await.  (One call reads no slot twice, so no    *)
(* word comes from the cache.)                                             *)
(***************************************************************************)
WatchDuring ==
  \E args \in WatchArgs :
    /\ watchMappingKey(args[1], args[2])
    /\ mappingKeys' # mappingKeys
    /\ UNCHANGED <<last, undone, decoding, fleet>>

UnwatchDuring ==
  \E args \in WatchArgs :
    /\ unwatchMappingKey(args[1], args[2])
    /\ mappingKeys' # mappingKeys
    /\ UNCHANGED <<last, undone, decoding, fleet>>

NextInterleaved ==
  \/ \E nameOrId \in VariableArgs, block \in Blocks : CallVariable(1, nameOrId, block)
  \/ \E block \in Blocks : CallState(1, block)
  \/ BlockReturns(1) \/ BalanceReturns(1) \/ TransactionCountReturns(1)
  \/ Decoded(1) \/ StorageReturns(1) \/ CodeReturns(1)
  \/ WatchDuring
  \/ UnwatchDuring
SpecInterleaved == Init /\ [][NextInterleaved]_vars

(***************************************************************************)
(* The decoder on a chain whose reads all return: no read fails, and a     *)
(* read that is awaited returns eventually.                                *)
(***************************************************************************)
NextReturning ==
  \/ \E c \in 1..MaxCalls, nameOrId \in VariableArgs, block \in Blocks : CallVariable(c, nameOrId, block)
  \/ \E c \in 1..MaxCalls, block \in Blocks : CallState(c, block)
  \/ \E c \in 1..MaxCalls :
        \/ BlockReturns(c) \/ BalanceReturns(c) \/ TransactionCountReturns(c)
        \/ Decoded(c) \/ StorageReturns(c) \/ CodeReturns(c) \/ Resume(c)
  \/ WatchKey
  \/ UnwatchKey
ReadsReturn ==
  \A c \in 1..MaxCalls :
    WF_vars(StorageReturns(c)) /\ WF_vars(CodeReturns(c)) /\ WF_vars(Resume(c))
SpecReturning == Init /\ [][NextReturning]_vars /\ ReadsReturn

(***************************************************************************)
(* constructSlot on its own: each step applies it to a variable and a list *)
(* of indices a caller can pass to watchMappingKey or unwatchMappingKey,   *)
(* and keeps the pair it returns.                                          *)
(***************************************************************************)
LocateIdentifiers == Identifiers \cup {Str("f")}
LocateIndex == RawIndex \cup {Num(1), Num(-1)}
LocateIndexSeqs == SeqsUpTo(LocateIndex, MaxIndices)

Locate(variable, indices) ==
  /\ last' = [op |-> "locate", variable |-> variable, indices |-> indices,
              raised |-> constructSlot(variable, indices).raised,
              slot |-> constructSlot(variable, indices).slot,
              definition |-> constructSlot(variable, indices).definition]
  /\ UNCHANGED <<mappingKeys, undone, decoding, fleet>>

NextLocate == \E variable \in LocateIdentifiers, indices \in LocateIndexSeqs : Locate(variable, indices)
SpecLocate == Init /\ [][NextLocate]_vars

(***************************************************************************)
(* Two instance decoders of one contract decoder, for the same address.    *)
(***************************************************************************)
InitInstances ==
  /\ mappingKeys = << >>
  /\ last = NoCall
  /\ undone = <<FALSE, << >> >>
  /\ storageCache = EmptyMap
  /\ calls = [c \in 1..MaxCalls |-> IdleCall]
  /\ storageReads = EmptyMap
  /\ storageFailed = EmptyMap
  /\ codeReads = 0
  /\ \E deployedBytecode \in DeployedBytecodes :
        /\ contract = [deployedBytecode |-> deployedBytecode]
        /\ heap = Put(EmptyMap, SharedContexts, ContextsById(deployedBytecode))
  /\ instances = [i \in 1..MaxInstances |-> NoInstance]

\* Mutant of ForInstance: the instances of a contract decoder have one
\* storage cache between them.
ForInstanceOneCache(i) ==
  /\ instances[i].pc = "none"
  /\ IF \E j \in 1..MaxInstances : instances[j].pc # "none"
       THEN /\ heap' = heap
            /\ instances' = [instances EXCEPT ![i] =
                 [NoInstance EXCEPT !.pc = "init",
                    !.storageCache =
                       instances[CHOOSE j \in 1..MaxInstances : instances[j].pc # "none"].storageCache,
                    !.contextsById = SharedContexts]]
       ELSE /\ heap' = Put(heap, NewCache(i), EmptyMap)
            /\ instances' = [instances EXCEPT ![i] =
                 [NoInstance EXCEPT !.pc = "init", !.storageCache = NewCache(i),
                                    !.contextsById = SharedContexts]]
  /\ UNCHANGED <<contract, mappingKeys, last, undone, decoding>>

\* forInstance up to the await in init: the constructor gives the instance a
\* new empty cache and registry and the shared tables of the wire decoder.
ForInstance(i) ==
  /\ instances[i].pc = "none"
  /\ heap' = Put(heap, NewCache(i), EmptyMap)
  /\ instances' = [instances EXCEPT ![i] =
       [NoInstance EXCEPT !.pc = "init", !.storageCache = NewCache(i),
                          !.contextsById = SharedContexts]]
  /\ UNCHANGED <<contract, mappingKeys, last, undone, decoding>>

\* Mutant of InstanceInit: the additional context is assigned into the table
\* the instance refers to.
InstanceInitInPlace(i) ==
  /\ instances[i].pc = "init"
  /\ LET contractCode == getCode(contractAddress, LatestBlock)
         extraContext == [makeContext(contract) EXCEPT !.binary = contractCode]
         additionalContexts == Put(EmptyMap, extraContext.contractId, extraContext)
     IN IF contract.deployedBytecode = "undefined" \/ contract.deployedBytecode = "0x"
          THEN /\ heap' = [heap EXCEPT ![instances[i].contextsById] =
                                         Spread(heap[instances[i].contextsById], additionalContexts)]
               /\ instances' = [instances EXCEPT ![i].pc = "ready",
                                                 ![i].contractCode = contractCode,
                                                 ![i].additionalContexts = additionalContexts]
          ELSE /\ heap' = heap
               /\ instances' = [instances EXCEPT ![i].pc = "ready",
                                                 ![i].contractCode = contractCode]
  /\ UNCHANGED <<contract, mappingKeys, last, undone, decoding>>

\* init once the code of the address has been read: without deployed
\* bytecode in the artifact a context is made of the code and a new table,
\* the instance's own, holds it along with the shared entries.
InstanceInit(i) ==
  /\ instances[i].pc = "init"
  /\ LET contractCode == getCode(contractAddress, LatestBlock)
         extraContext == [makeContext(contract) EXCEPT !.binary = contractCode]
         additionalContexts == Put(EmptyMap, extraContext.contractId, extraContext)
     IN IF contract.deployedBytecode = "undefined" \/ contract.deployedBytecode = "0x"
          THEN /\ heap' = Put(heap, NewTable(i),
                                 Spread(heap[instances[i].contextsById], additionalContexts))
               /\ instances' = [instances EXCEPT ![i].pc = "ready",
                                                 ![i].contractCode = contractCode,
                                                 ![i].additionalContexts = additionalContexts,
                                                 ![i].contextsById = NewTable(i)]
          ELSE /\ heap' = heap
               /\ instances' = [instances EXCEPT ![i].pc = "ready",
                                                 ![i].contractCode = contractCode]
  /\ UNCHANGED <<contract, mappingKeys, last, undone, decoding>>

InstanceWatchArgs == {<<Num(2), <<Num(0), Num(0)>> >>}
InstanceVariableArgs == {Str("2"), Num(5)}
InstanceBlocks == {Num(1)}

InstanceWatch(i) ==
  \E args \in InstanceWatchArgs :
    /\ instances[i].pc = "ready"
    /\ Len(Watched(Located[args], instances[i].mappingKeys)) <= MaxKeys
    /\ instances' = [instances EXCEPT ![i].mappingKeys = Watched(Located[args], @)]
    /\ UNCHANGED <<contract, heap, mappingKeys, last, undone, decoding>>

InstanceUnwatch(i) ==
  \E args \in InstanceWatchArgs :
    /\ instances[i].pc = "ready"
    /\ instances' = [instances EXCEPT ![i].mappingKeys = Unwatched(Located[args], @)]
    /\ UNCHANGED <<contract, heap, mappingKeys, last, undone, decoding>>

\* The assignments of one run of an instance's call to the instance's fields
\* and to the cache object it refers to.
InstanceApply(i, effect) ==
  \E e \in {effect} :
    /\ instances' = [instances EXCEPT
         ![i].call = e.call,
         ![i].reads = IF e.read.type = "storage"
                        THEN Put(@, Triple(e.read.block, e.read.address, e.read.slot),
                                 Count(@, Triple(e.read.block, e.read.address, e.read.slot)) + 1)
                        ELSE @]
    /\ heap' = [heap EXCEPT ![instances[i].storageCache] = e.cache]
    /\ UNCHANGED <<contract, mappingKeys, last, undone, decoding>>

\* variable(nameOrId, block) or state(block) on an instance, up to its first await.
InstanceCall(i, kind, nameOrId, block) ==
  /\ instances[i].pc = "ready"
  /\ instances[i].call.pc = "idle"
  /\ LET call == [IdleCall EXCEPT !.kind = kind, !.nameOrId = nameOrId,
                                  !.block = IF block.t = "number" THEN block.n ELSE 0]
         cache == heap[instances[i].storageCache]
     IN IF block.t # "number"
          THEN InstanceApply(i, Effect([call EXCEPT !.pc = "getBlock"], cache, NoRead))
          ELSE IF kind = "state" THEN InstanceApply(i, state_(call, cache))
          ELSE InstanceApply(i, variable_(call, cache, instances[i].mappingKeys))

\* What the call does when the await it is at returns, up to its next await.
Continued(call, cache, keys) ==
  CASE call.pc = "getBlock" ->
         IF call.kind = "state" THEN state_([call EXCEPT !.block = LatestBlock], cache)
         ELSE variable_([call EXCEPT !.block = LatestBlock], cache, keys)
    [] call.pc = "getBalance" ->
         Effect([call EXCEPT !.pc = "getTransactionCount"], cache, NoRead)
    [] call.pc = "getTransactionCount" ->
         decodeVariable([call EXCEPT !.varIndex = 1], cache, keys)
    [] call.pc = "decoded" ->
         LET stored == [call EXCEPT !.variables =
                          Append(call.variables,
                                 DecoderValue(stateVariableReferences[call.varIndex],
                                              call.keys, call.responses))]
         IN IF call.varIndex < Len(stateVariableReferences)
              THEN decodeVariable([stored EXCEPT !.varIndex = call.varIndex + 1], cache, keys)
              ELSE Effect([stored EXCEPT !.pc = "returned", !.value = "state"], cache, NoRead)
    [] call.pc = "getStorageAt" ->
         LET asked == call.serviced[Len(call.serviced)]
             word == toBytes(getStorageAt(asked.address, asked.slot, asked.block), WORD_SIZE)
         IN Drive([call EXCEPT !.responses = Append(call.responses, word)],
                  Put(cache, asked.block,
                      Put(cache[asked.block], asked.address,
                          Put(cache[asked.block][asked.address], ToString(asked.slot), word))))
    [] call.pc = "getCode" ->
         LET asked == call.serviced[Len(call.serviced)]
         IN Drive([call EXCEPT !.responses =
                     Append(call.responses, getCode(asked.address, asked.block))], cache)
    [] call.pc = "resume" ->
         Drive([call EXCEPT !.responses = Append(call.responses, call.pending)], cache)

InstanceContinues(i) ==
  /\ instances[i].pc = "ready"
  /\ instances[i].call.pc \in {"getBlock", "getBalance", "getTransactionCount", "decoded",
                                "getStorageAt", "getCode", "resume"}
  /\ InstanceApply(i, Continued(instances[i].call, heap[instances[i].storageCache],
                                instances[i].mappingKeys))

NextInstances ==
  \E i \in 1..MaxInstances :
    \/ ForInstance(i)
    \/ InstanceInit(i)
    \/ InstanceWatch(i)
    \/ InstanceUnwatch(i)
    \/ \E nameOrId \in InstanceVariableArgs, block \in InstanceBlocks :
          InstanceCall(i, "variable", nameOrId, block)
    \/ \E block \in InstanceBlocks : InstanceCall(i, "state", Str(""), block)
    \/ InstanceContinues(i)
SpecInstances == InitInstances /\ [][NextInstances]_vars

(***************************************************************************)
(* Properties of the registry                                              *)
(***************************************************************************)
Range(seq) == {seq[i] : i \in 1..Len(seq)}
\* The slots of a chain: the chain's non-empty prefixes (leaf and ancestors).
ChainOf(slot) == {SubSeq(slot, 1, k) : k \in 1..Len(slot)}
ProperAncestors(slot) == ChainOf(slot) \ {slot}
PassesThrough(entry, target) == \E anc \in ChainOf(entry) : equalSlots(anc, target)
\* keys restricted to the entries of kept, order preserved
Restrict(keys, kept) == SelectSeq(keys, LAMBDA e : e \in Range(kept))
BuiltCall(op) == last.op = op /\ ~last.raised /\ last.slot # NoSlot

\* C3: after watch on a buildable chain, the leaf and every ancestor with a
\* defined key are registered, and the entries registered before the call are
\* all still there in their previous relative order.
C3_WatchRegistersChain ==
  BuiltCall("watch") =>
    /\ \A anc \in ChainOf(last.slot) : HasKey(anc) => InRegistry(mappingKeys, anc)
    /\ Restrict(mappingKeys, last.before) = last.before

\* C3 witness: a watch of a two-key path (a[k][n]) on a non-empty registry
\* that registered both the leaf and its keyed ancestor.
C3_Witness ==
  /\ BuiltCall("watch")
  /\ Len(last.slot) = 3 /\ HasKey(last.slot) /\ HasKey(path(last.slot))
  /\ Len(last.before) >= 1
  /\ Len(mappingKeys) = Len(last.before) + 2
  /\ ~InRegistry(last.before, path(last.slot))

\* C4: unwatch on a buildable target removes exactly the entries whose chain
\* passes through a slot equal to the target; the others stay in order, and
\* nothing is added.
C4_UnwatchRemovesDescendants ==
  BuiltCall("unwatch") =>
    mappingKeys = SelectSeq(last.before, LAMBDA e : ~PassesThrough(e, last.slot))

\* C4 witness: an unwatch that removed the target and a descendant and kept
\* an unrelated entry.
C4_Witness ==
  /\ BuiltCall("unwatch")
  /\ Len(last.before) = 3 /\ Len(mappingKeys) = 1
  /\ InRegistry(last.before, last.slot)
  /\ \E e \in Range(last.before) : e # last.slot /\ PassesThrough(e, last.slot)

\* Keyed proper ancestors of the target that were not registered, leaf-most first.
RECURSIVE NewAncestors(_, _)
NewAncestors(slot, pre) ==
  IF slot = NoSlot THEN << >>
  ELSE (IF HasKey(slot) /\ ~InRegistry(pre, slot) THEN <<slot>> ELSE << >>)
       \o NewAncestors(path(slot), pre)

\* C5 as stated: watch then unwatch with identical arguments restores the
\* pre-watch registry, provided no ancestor or descendant key of the target
\* was registered independently (none before the watch, none left after).
C5_RoundTripRestores ==
  undone[1] /\ BuiltCall("unwatch")
    /\ (\A e \in Range(undone[2]) \cup Range(mappingKeys) :
          /\ ~(e # last.slot /\ PassesThrough(e, last.slot))
          /\ \A anc \in ProperAncestors(last.slot) : ~equalSlots(e, anc))
  => mappingKeys = undone[2]

\* C5 amended: watch then unwatch with identical arguments leaves the
\* pre-watch registry followed by the keyed proper ancestors of the target
\* that the watch newly registered, provided the registry before the watch
\* held neither the target nor a descendant of it; it is exactly the
\* pre-watch registry when moreover no keyed proper ancestor was new.
\* Arguments that build no slot leave the registry as it was.
C5_RoundTripAmended ==
  undone[1] =>
    IF last.raised \/ last.slot = NoSlot THEN mappingKeys = undone[2]
    ELSE (\A e \in Range(undone[2]) : ~PassesThrough(e, last.slot)) =>
           /\ mappingKeys = undone[2] \o NewAncestors(path(last.slot), undone[2])
           /\ (\A anc \in ProperAncestors(last.slot) :
                 HasKey(anc) => InRegistry(undone[2], anc)) => mappingKeys = undone[2]

\* C5 witness: a round trip on a two-key path whose keyed ancestor was new,
\* so that the ancestor stays behind.
C5_Witness ==
  /\ undone[1] /\ BuiltCall("unwatch")
  /\ Len(last.slot) = 3 /\ HasKey(path(last.slot))
  /\ Len(undone[2]) >= 1
  /\ Len(mappingKeys) = Len(undone[2]) + 1

\* C6: every slot held in the registry has a defined key.
C6_OnlyKeyedSlots == \A i \in 1..Len(mappingKeys) : HasKey(mappingKeys[i])

\* C6 witness: a watch whose leaf has no key (an array element or a struct
\* member) on a registry holding a key below an array element.
C6_Witness ==
  /\ BuiltCall("watch") /\ ~HasKey(last.slot) /\ Len(last.slot) >= 2
  /\ \E e \in Range(mappingKeys) : Len(e) = 3 /\ e[2].hashPath = "true"

\* C7 as stated: slot construction never raises, so no watch or unwatch call
\* ends in an error.
C7_NeverRaises == ~last.raised

\* The arguments of the model's contract for which no slot can be built: the
\* root is the constant c; list (elements of one byte) is indexed; the uint
\* member s.x (ordinal 0) is indexed.
NoSlotCase(variable, indices) ==
  \/ variable = Str("c")
  \/ variable = Str("list") /\ Len(indices) >= 1
  \/ variable = Str("s") /\ Len(indices) >= 2 /\ indices[1] = Num(0)

\* C8: watch and unwatch with arguments for which no slot can be built (a
\* constant root, an index into a non-indexable type or into an array whose
\* elements are not whole words) raise no error, build no slot, and leave the
\* registry and the storage cache as they were; so does any other call that
\* builds no slot without raising.
C8_NoSlotIsNoOp ==
  /\ (last.op # "none" /\ NoSlotCase(last.variable, last.indices)) =>
        ~last.raised /\ last.slot = NoSlot
  /\ (last.op # "none" /\ ~last.raised /\ last.slot = NoSlot) =>
        mappingKeys = last.before /\ storageCache = EmptyMap

\* C8 witness: an unwatch of an element of list on a non-empty registry.
C8_Witness ==
  /\ last.op = "unwatch" /\ last.variable = Str("list") /\ Len(last.indices) = 1
  /\ Len(mappingKeys) >= 2

(***************************************************************************)
(* Properties of the storage cache and of decoding                         *)
(***************************************************************************)
\* The request a call that awaits or resumes has last put to getStorage/getCode.
Asked(call) == call.serviced[Len(call.serviced)]
\* The call has just run getStorage: it awaits the chain or the cached word.
InGetStorage(c) == calls'[c] # calls[c] /\ calls'[c].pc \in {"getStorageAt", "resume"}

\* C1 as stated: over the lifetime of the decoder, whatever the interleaving
\* of its calls, at most one chain read that returns is issued per
\* (block, address, slot) triple.
C1_OneReadPerTriple ==
  \A t \in DOMAIN storageReads : storageReads[t] - Count(storageFailed, t) <= 1

\* C2: a word stored in the cache for (block, address, slot) is never removed
\* and never changes, and a getStorage called for a triple that is cached
\* returns the stored word and issues no chain read.
C2_CacheMonotonic ==
  [][/\ \A b \in DOMAIN storageCache : \A a \in DOMAIN storageCache[b] :
          \A s \in DOMAIN storageCache[b][a] :
            /\ b \in DOMAIN storageCache' /\ a \in DOMAIN storageCache'[b]
            /\ s \in DOMAIN storageCache'[b][a]
            /\ storageCache'[b][a][s] = storageCache[b][a][s]
     /\ \A c \in 1..MaxCalls :
          (InGetStorage(c) /\ Cached(storageCache, Asked(calls'[c]).block,
                                     Asked(calls'[c]).address, Asked(calls'[c]).slot)) =>
            /\ storageReads' = storageReads
            /\ calls'[c].pc = "resume"
            /\ calls'[c].pending =
                 storageCache[Asked(calls'[c]).block][Asked(calls'[c]).address]
                             [ToString(Asked(calls'[c]).slot)]
    ]_vars

\* C2 witness: a call is handed a word from the cache, read once from the chain.
C2_Witness ==
  \E c \in 1..MaxCalls :
    /\ calls[c].pc = "resume"
    /\ LET asked == Asked(calls[c])
       IN /\ Count(storageReads, Triple(asked.block, asked.address, asked.slot)) = 1
          /\ calls[c].pending = getStorageAt(asked.address, asked.slot, asked.block)

NoMatch(nameOrId) ==
  \A i \in 1..Len(stateVariableReferences) : ~MatchesVariable(stateVariableReferences[i], nameOrId)

\* C9: variable() with a name or id that matches no allocation, once the
\* block number is known, returns undefined without a decode, without a
\* storage or code read and without a change to the cache or the registry;
\* state() returns one decoded value for each allocation, in their order.
C9_NotFound ==
  [][\A c \in 1..MaxCalls :
       /\ (/\ calls'[c] # calls[c]
           /\ calls'[c].kind = "variable" /\ NoMatch(calls'[c].nameOrId)
           /\ calls'[c].pc \notin {"getBlock", "failed"}) =>
             /\ calls'[c].pc = "returned" /\ calls'[c].value = "undefined"
             /\ calls'[c].decodes = 0 /\ calls'[c].serviced = << >>
             /\ UNCHANGED <<storageCache, storageReads, codeReads, mappingKeys>>
       /\ (calls'[c].kind = "state" /\ calls'[c].pc = "returned") =>
             /\ calls'[c].value = "state"
             /\ calls'[c].decodes = Len(stateVariableReferences)
             /\ Len(calls'[c].variables) = Len(stateVariableReferences)
             /\ \A i \in 1..Len(stateVariableReferences) :
                  calls'[c].variables[i].name = stateVariableReferences[i].name
    ]_vars

\* C9 witness: variable("nosuch") has returned undefined on a decoder whose
\* cache holds words, and a state() call has returned.
C9_Witness ==
  /\ storageCache # EmptyMap
  /\ \E c \in 1..MaxCalls :
       calls[c].kind = "variable" /\ calls[c].nameOrId = Str("nosuch")
         /\ calls[c].pc = "returned" /\ calls[c].value = "undefined"
  /\ \E c \in 1..MaxCalls : calls[c].kind = "state" /\ calls[c].pc = "returned"

\* The requests of the decodeVariable a call is in are the first requests of
\* the engine, serviced as the driver must, and the responses are their words.
ServicedInOrder(call) ==
  LET plan == Plan(stateVariableReferences[call.varIndex], call.keys, call.responses)
  IN /\ Len(call.serviced) = Len(call.responses) +
                             (IF call.pc \in {"getStorageAt", "getCode", "resume"} THEN 1 ELSE 0)
     /\ Len(call.serviced) <= Len(plan)
     /\ call.pc \in {"decoded", "returned"} => Len(call.serviced) = Len(plan)
     /\ call.pc = "getStorageAt" \/ call.pc = "resume" => Asked(call).type = "storage"
     /\ call.pc = "getCode" => Asked(call).type = "code"
     /\ \A i \in 1..Len(call.serviced) :
          /\ call.serviced[i].type = plan[i].type
          /\ call.serviced[i].block = call.block
          /\ IF plan[i].type = "storage"
               THEN /\ call.serviced[i].address = contractAddress
                    /\ call.serviced[i].slot = plan[i].slot
               ELSE call.serviced[i].address = plan[i].address
     /\ \A i \in 1..Len(call.responses) :
          call.responses[i] =
            IF plan[i].type = "storage"
              THEN toBytes(getStorageAt(contractAddress, plan[i].slot, call.block), WORD_SIZE)
              ELSE getCode(plan[i].address, call.block)

\* C10: within a decodeVariable the driver services the requests of the
\* engine once each and in order, a storage request at the instance's address
\* and a code request at the requested address, both at the call's block;
\* response n is supplied before request n+1 is serviced; and a read is
\* issued only by a call for the request the engine has just yielded to it.
C10_DriverServicesInOrder ==
  [][/\ \A c \in 1..MaxCalls :
          (calls'[c].varIndex > 0 /\ calls'[c].pc # "failed") => ServicedInOrder(calls'[c])
     /\ \A t \in DOMAIN storageReads' :
          Count(storageReads', t) > Count(storageReads, t) =>
            \E c \in 1..MaxCalls :
              /\ calls'[c] # calls[c] /\ calls'[c].pc = "getStorageAt"
              /\ t = Triple(Asked(calls'[c]).block, Asked(calls'[c]).address, Asked(calls'[c]).slot)
     /\ codeReads' > codeReads =>
          \E c \in 1..MaxCalls : calls'[c] # calls[c] /\ calls'[c].pc = "getCode"
    ]_vars

\* C10 witness: a function variable has been decoded, its word read from
\* storage and then the code at the address in the word.
C10_Witness ==
  \E c \in 1..MaxCalls :
    /\ calls[c].pc \in {"decoded", "returned"} /\ calls[c].varIndex > 0
    /\ Len(calls[c].serviced) = 2 /\ Len(calls[c].responses) = 2
    /\ calls[c].serviced[1].type = "storage" /\ calls[c].serviced[2].type = "code"
    /\ calls[c].serviced[2].address # contractAddress

\* C11: a chain read of a call either returns, and the engine is resumed with
\* the response, or fails, and then the call ends there with the error: the
\* read is not issued again, nothing is read or cached in the step, the
\* engine is not resumed, no value is returned, and the call never moves again.
C11_FailureAborts ==
  [][/\ \A c \in 1..MaxCalls :
          /\ calls[c].pc = "failed" => calls'[c] = calls[c]
          /\ calls'[c].pc = "failed" => calls'[c].value = "none"
          /\ (calls[c].pc \in {"getStorageAt", "getCode"} /\ calls'[c] # calls[c]) =>
                \/ /\ calls'[c] = [calls[c] EXCEPT !.pc = "failed"]
                   /\ UNCHANGED <<storageCache, storageReads, codeReads>>
                \/ /\ Len(calls'[c].responses) = Len(calls[c].responses) + 1
                   /\ SubSeq(calls'[c].responses, 1, Len(calls[c].responses)) = calls[c].responses
     /\ \A t \in DOMAIN storageFailed' :
          Count(storageFailed', t) > Count(storageFailed, t) =>
            \E c \in 1..MaxCalls :
              /\ calls[c].pc = "getStorageAt" /\ calls'[c].pc = "failed"
              /\ t = Triple(Asked(calls[c]).block, Asked(calls[c]).address, Asked(calls[c]).slot)
    ]_vars

\* C11 witness: a state() call has failed on a storage read after it had
\* decoded some variables, and a code read of another call has failed.
C11_Witness ==
  /\ \E c \in 1..MaxCalls :
       /\ calls[c].kind = "state" /\ calls[c].pc = "failed"
       /\ Len(calls[c].variables) >= 2 /\ Asked(calls[c]).type = "storage"
       /\ Count(storageFailed, Triple(Asked(calls[c]).block, Asked(calls[c]).address,
                                      Asked(calls[c]).slot)) = 1
  /\ \E c \in 1..MaxCalls :
       calls[c].pc = "failed" /\ Len(calls[c].serviced) = 2 /\ Asked(calls[c]).type = "code"

\* The values a call has decoded so far, by variable: those stored by state(),
\* and the one a variable() call has returned.
DecodedValues(call) ==
  IF call.kind = "state" THEN call.variables
  ELSE IF call.pc = "returned" /\ call.varIndex > 0
    THEN [i \in 1..call.varIndex |->
            IF i = call.varIndex
              THEN DecoderValue(stateVariableReferences[i], call.keys, call.responses)
              ELSE [name |-> "", entries |-> << >>]]
    ELSE << >>
\* The slots of the mapping entries in a decoded value.
KeyedEntries(value) == {e.of : e \in {x \in Range(value.entries) : HasKey(x.of)}}
\* The registered keys of the mappings inside variable i (a: 1, arr: 2) that
\* exist at the block: a key below arr[n] exists when n is below the length.
RegisteredKeysOf(i, block) ==
  {k \in Range(mappingKeys) :
     /\ Len(k) = 3 /\ k[1].offset = stateVariableReferences[i].offset
     /\ k[2].hashPath = "true" =>
          k[2].offset < getStorageAt(contractAddress, stateVariableReferences[i].offset, block)}

\* C14: a decoded variable that contains mappings (a, arr) holds an entry for
\* exactly the keys registered for those mappings, none when nothing is
\* watched, each with the word of its storage slot at the block of the call.
C14_MaterializesRegisteredKeys ==
  \A c \in 1..MaxCalls : \A i \in {1, 2} :
    (Len(DecodedValues(calls[c])) >= i /\ DecodedValues(calls[c])[i].name # "") =>
      LET value == DecodedValues(calls[c])[i]
      IN /\ KeyedEntries(value) = RegisteredKeysOf(i, calls[c].block)
         /\ \A e \in Range(value.entries) :
              e.word = getStorageAt(contractAddress, slotAddress(e.of), calls[c].block)

\* C14 witness: with a["m"][0] watched, state() has decoded a with exactly
\* that entry, and a variable() call has decoded arr with no entry.
C14_Witness ==
  /\ \E c \in 1..MaxCalls :
       /\ calls[c].kind = "state" /\ Len(calls[c].variables) >= 1
       /\ Cardinality(KeyedEntries(calls[c].variables[1])) = 1
       /\ \E k \in KeyedEntries(calls[c].variables[1]) : k[2].key.s = "m" /\ k[3].key.n = 0
  /\ \E c \in 1..MaxCalls :
       /\ calls[c].kind = "variable" /\ calls[c].pc = "returned" /\ calls[c].varIndex = 2
       /\ KeyedEntries(DecodedValues(calls[c])[2]) = {}

\* C18: the registry is ancestor-closed: with a slot, every slot with a key
\* on its chain toward the root is registered too.
C18_AncestorClosed ==
  \A e \in Range(mappingKeys) : \A anc \in ProperAncestors(e) :
    HasKey(anc) => InRegistry(mappingKeys, anc)

\* C18 witness: an unwatch has removed one key below a keyed ancestor and
\* left another key below the same ancestor.
C18_Witness ==
  /\ BuiltCall("unwatch") /\ Len(last.slot) = 3 /\ HasKey(path(last.slot))
  /\ Len(mappingKeys) < Len(last.before)
  /\ InRegistry(mappingKeys, path(last.slot))
  /\ \E e \in Range(mappingKeys) : Len(e) = 3 /\ equalSlots(path(e), path(last.slot))

\* C19: no two entries of the registry are structurally equal, and a watch
\* of a slot that is registered already leaves the registry as it was.
C19_NoDuplicates ==
  /\ \A i, j \in 1..Len(mappingKeys) : i # j => ~equalSlots(mappingKeys[i], mappingKeys[j])
  /\ (BuiltCall("watch") /\ InRegistry(last.before, last.slot)) => mappingKeys = last.before

\* C19 witness: a watch of a two-key path that was registered before.
C19_Witness ==
  /\ BuiltCall("watch") /\ Len(last.slot) = 3 /\ HasKey(last.slot)
  /\ InRegistry(last.before, last.slot) /\ Len(last.before) >= 2

\* C20: a decodeVariable takes the registry as it is when it starts and keeps
\* it: a watch or unwatch while the call is suspended changes the registry
\* and leaves the call as it is, and the call goes on servicing the requests
\* that the keys it started with give rise to.
C20_KeysAsAtStart ==
  [][/\ mappingKeys' # mappingKeys => calls' = calls
     /\ \A c \in 1..MaxCalls :
          /\ calls'[c].decodes = calls[c].decodes + 1 => calls'[c].keys = mappingKeys
          /\ (calls'[c].decodes = calls[c].decodes /\ calls[c].varIndex > 0) =>
                calls'[c].keys = calls[c].keys
          /\ (calls'[c].varIndex > 0 /\ calls'[c].pc # "failed") => ServicedInOrder(calls'[c])
    ]_vars

\* C20 witness: a decodeVariable has finished with the requests of the keys
\* it started with, while the registry now asks for different requests.
C20_Witness ==
  \E c \in 1..MaxCalls :
    /\ calls[c].pc \in {"decoded", "returned"} /\ calls[c].varIndex > 0
    /\ calls[c].keys # mappingKeys
    /\ Len(calls[c].serviced) =
         Len(Plan(stateVariableReferences[calls[c].varIndex], calls[c].keys, calls[c].responses))
    /\ Len(calls[c].serviced) #
         Len(Plan(stateVariableReferences[calls[c].varIndex], mappingKeys, calls[c].responses))

\* C17: when every chain read returns, a decodeVariable that awaits a read
\* comes to its end: the engine is done, every request it yielded has been
\* serviced and answered by one resume each, and the value is returned (to
\* the caller of variable(), or to the loop of state()).
C17_DecodeTerminates ==
  \A c \in 1..MaxCalls :
    (calls[c].pc \in {"getStorageAt", "getCode", "resume"})
      ~> (/\ calls[c].pc \in {"decoded", "returned"} /\ calls[c].varIndex > 0
          /\ DecoderDone(stateVariableReferences[calls[c].varIndex],
                         calls[c].keys, calls[c].responses)
          /\ Len(calls[c].responses) = Len(calls[c].serviced)
          /\ calls[c].kind = "variable" => calls[c].value = "value")

\* C17 witness: a decodeVariable has ended after three requests, the last
\* of them answered from the cache.
C17_Witness ==
  \E c \in 1..MaxCalls :
    /\ calls[c].pc \in {"decoded", "returned"} /\ calls[c].varIndex > 0
    /\ Len(calls[c].responses) >= 2 /\ Len(calls[c].responses) = Len(calls[c].serviced)
    /\ Count(storageReads, Triple(Asked(calls[c]).block, Asked(calls[c]).address,
                                   Asked(calls[c]).slot)) = 1
    /\ \E d \in 1..MaxCalls : d # c /\ calls[d].pc = "returned" /\ calls[d].kind = "state"

(***************************************************************************)
(* Properties of constructSlot                                             *)
(***************************************************************************)
LocatedSlot == last.op = "locate" /\ ~last.raised /\ last.slot # NoSlot

\* C15: every offset of every slot constructSlot returns is an unsigned
\* integer (the lower bound of 0 <= offset < 2^256), whatever array index,
\* mapping key or struct member is passed.
C15_OffsetsUnsigned ==
  LocatedSlot => \A i \in 1..Len(last.slot) : last.slot[i].offset >= 0

\* The call's parent: constructSlot on the indices without the last.
ParentOf(call) == constructSlot(call.variable, SubSeq(call.indices, 1, Len(call.indices) - 1))
IndexedParent ==
  /\ last.op = "locate" /\ last.indices # << >>
  /\ ~ParentOf(last).raised /\ ParentOf(last).slot # NoSlot

\* C16: an index into an array gives a slot whose path is the parent's slot,
\* whose offset is the index times the element's size in words and whose
\* hashPath is true exactly for a dynamic array, and gives no slot when the
\* element is not a whole number of words; a key of a mapping gives offset 0
\* with the key defined; a parent that is no array, mapping or struct gives
\* no slot.
C16_IndexingByCategory ==
  IndexedParent =>
    LET parent == ParentOf(last)
        category == Types(parent.definition)
        i == ParseBN(last.indices[Len(last.indices)])
    IN CASE category.class = "array" ->
              IF Types(category.base).isWords
                THEN /\ LocatedSlot
                     /\ path(last.slot) = parent.slot
                     /\ Leaf(last.slot).offset = i * Types(category.base).words
                     /\ Leaf(last.slot).hashPath = (IF category.dynamic THEN "true" ELSE "false")
                     /\ ~HasKey(last.slot)
                ELSE ~last.raised /\ last.slot = NoSlot
         [] category.class = "mapping" ->
              /\ LocatedSlot
              /\ path(last.slot) = parent.slot
              /\ Leaf(last.slot).offset = 0
              /\ HasKey(last.slot)
         [] category.class = "struct" -> TRUE
         [] OTHER -> ~last.raised /\ last.slot = NoSlot

\* C16 witness: the element 1 of the fixed array of two-word structs is at
\* offset 2 of the array's slot, not hashed.
C16_Witness ==
  /\ IndexedParent
  /\ last.variable = Str("fixed") /\ last.indices = <<Num(1)>>
  /\ LocatedSlot
  /\ Leaf(last.slot).offset = 2 /\ Leaf(last.slot).hashPath = "false"

(***************************************************************************)
(* Properties of the instances of one contract decoder                     *)
(***************************************************************************)
Made(i) == instances[i].pc # "none"
\* The words in a cache object that the instance never read from the chain.
Unfetched(i) ==
  LET cache == heap[instances[i].storageCache]
  IN {<<block, address, slot>> \in
        UNION {{<<b, a, s>> : s \in DOMAIN cache[b][a]} :
               <<b, a>> \in UNION {{<<b, a>> : a \in DOMAIN cache[b]} : b \in DOMAIN cache}} :
        \A t \in DOMAIN instances[i].reads :
          ~(t.block = block /\ t.address = address /\ ToString(t.slot) = slot)}

\* C12: a step changes the fields of one instance at most, and leaves alone
\* the registry and the storage cache of every instance whose fields it does
\* not change; and every word in an instance's cache was read from the
\* chain by that instance, whatever the other instance has cached.
C12_InstancesIndependent ==
  /\ [](\A i \in 1..MaxInstances : Made(i) => Unfetched(i) = {})
  /\ [][/\ \A i, j \in 1..MaxInstances :
             i # j => instances'[i] = instances[i] \/ instances'[j] = instances[j]
        /\ \A j \in 1..MaxInstances :
             Made(j) /\ instances'[j] = instances[j] =>
               /\ instances'[j].mappingKeys = instances[j].mappingKeys
               /\ heap'[instances'[j].storageCache] = heap[instances[j].storageCache]]_vars

\* C12 witness: both instances hold the same word, each after a read of its
\* own, and their registries differ.
C12_Witness ==
  /\ instances[1].mappingKeys # instances[2].mappingKeys
  /\ \E t \in DOMAIN instances[1].reads \cap DOMAIN instances[2].reads :
        /\ instances[1].reads[t] = 1 /\ instances[2].reads[t] = 1
        /\ Cached(heap[instances[1].storageCache], t.block, t.address, t.slot)
        /\ Cached(heap[instances[2].storageCache], t.block, t.address, t.slot)

NoDeployedBytecode == contract.deployedBytecode \in {"undefined", "0x"}

\* C13: the step that ends init makes an additional context, whose binary
\* is the code read for the address, exactly when the artifact has no
\* deployed bytecode or "0x"; the instance's table of contexts is then the
\* table it had with that entry merged in, and otherwise the table it had;
\* no step changes the shared table or the table of another instance.
C13_AdditionalContextLocal ==
  [][/\ heap'[SharedContexts] = heap[SharedContexts]
     /\ \A i \in 1..MaxInstances :
          instances[i].pc = "init" /\ instances'[i].pc = "ready" =>
            /\ instances'[i].additionalContexts # EmptyMap <=> NoDeployedBytecode
            /\ NoDeployedBytecode =>
                 /\ DOMAIN instances'[i].additionalContexts = {ContractId}
                 /\ instances'[i].additionalContexts[ContractId].binary =
                      getCode(contractAddress, LatestBlock)
                 /\ heap'[instances'[i].contextsById] =
                      Spread(heap[instances[i].contextsById], instances'[i].additionalContexts)
            /\ ~NoDeployedBytecode =>
                 heap'[instances'[i].contextsById] = heap[instances[i].contextsById]
            /\ \A j \in 1..MaxInstances :
                 j # i /\ Made(j) =>
                   heap'[instances'[j].contextsById] = heap[instances[j].contextsById]]_vars

\* C13 witness: with deployed bytecode "0x" both instances are initialised;
\* each has the context of the contract in a table of its own and the
\* shared table has not.
C13_Witness ==
  /\ contract.deployedBytecode = "0x"
  /\ instances[1].pc = "ready" /\ instances[2].pc = "ready"
  /\ instances[1].contextsById # instances[2].contextsById
  /\ ContractId \in DOMAIN heap[instances[1].contextsById]
  /\ ContractId \in DOMAIN heap[instances[2].contextsById]
  /\ ContractId \notin DOMAIN heap[SharedContexts]

(***************************************************************************)
(* Properties of a failed storage read                                     *)
(***************************************************************************)
TripleOf(request) == Triple(request.block, request.address, request.slot)
\* The chain reads of a triple that are awaited, and those that have returned.
InFlight(t) ==
  Cardinality({c \in 1..MaxCalls : calls[c].pc = "getStorageAt" /\ TripleOf(Asked(calls[c])) = t})
ReturnedReads(t) == Count(storageReads, t) - Count(storageFailed, t) - InFlight(t)

\* C21: the step in which a storage read fails changes nothing in the cache;
\* every word in the cache is the word of the chain at its triple, and a
\* read of that triple has returned; and a getStorage for a triple that has
\* no word, as after a failed read, awaits a chain read it has just issued.
C21_FailedReadStoresNothing ==
  /\ [](\A b \in DOMAIN storageCache : \A a \in DOMAIN storageCache[b] :
          \A s \in DOMAIN storageCache[b][a] :
            \E t \in DOMAIN storageReads :
              /\ t.block = b /\ t.address = a /\ ToString(t.slot) = s
              /\ ReturnedReads(t) >= 1
              /\ storageCache[b][a][s] = toBytes(getStorageAt(a, t.slot, b), WORD_SIZE))
  /\ [][\A c \in 1..MaxCalls :
          /\ (calls[c].pc = "getStorageAt" /\ calls'[c].pc = "failed") =>
                storageCache' = storageCache
          /\ (InGetStorage(c) /\ ~Cached(storageCache', Asked(calls'[c]).block,
                                          Asked(calls'[c]).address, Asked(calls'[c]).slot)) =>
                /\ calls'[c].pc = "getStorageAt"
                /\ Count(storageReads', TripleOf(Asked(calls'[c]))) =
                     Count(storageReads, TripleOf(Asked(calls'[c]))) + 1]_vars

\* C21 witness: a read of a triple has failed and its call has ended there;
\* the other call has read the triple again, and the word is now cached.
C21_Witness ==
  \E c, d \in 1..MaxCalls :
    /\ c # d
    /\ calls[c].pc = "failed" /\ calls[c].serviced # << >>
    /\ Asked(calls[c]).type = "storage"
    /\ Count(storageFailed, TripleOf(Asked(calls[c]))) = 1
    /\ Count(storageReads, TripleOf(Asked(calls[c]))) = 2
    /\ ReturnedReads(TripleOf(Asked(calls[c]))) = 1
    /\ Cached(storageCache, Asked(calls[c]).block, Asked(calls[c]).address, Asked(calls[c]).slot)
    /\ \E k \in 1..Len(calls[d].serviced) :
          calls[d].serviced[k] = Asked(calls[c]) /\ Len(calls[d].responses) >= k

====
